---- MODULE Spec2Model ----
(***************************************************************************)
(* Pronunciation check of the pika-adventure scenes.                       *)
(*                                                                         *)
(* Game4 (src/src/game/scenes/Game4.ts) scores a transcript against the    *)
(* word of the current command with an edit-distance similarity weighted   *)
(* by the recognizer confidence.  Game (src/src/game/scenes/Game.ts)       *)
(* accepts by substring containment.  Both count attempts per word.        *)
(*                                                                         *)
(* Strings are sequences of one-character strings.  Scores are exact       *)
(* fractions [num, den].  Delayed calls and tweens are entries of a        *)
(* creation-ordered list: an entry may fire when no entry created before   *)
(* it has a delay that is less than or equal to its own.                   *)
(***************************************************************************)
EXTENDS Integers, Sequences, FiniteSets, TLC

(***************************************************************************)
(* Bounds of the model.                                                    *)
(***************************************************************************)
MaxLen == 3
MaxTimers == 2
MaxCount == 3
MaxDup == 1

(***************************************************************************)
(* Characters and strings.                                                 *)
(***************************************************************************)
UpperChars == <<"A","B","C","D","E","F","G","H","I","J","K","L","M",
                "N","O","P","Q","R","S","T","U","V","W","X","Y","Z">>
LowerChars == <<"a","b","c","d","e","f","g","h","i","j","k","l","m",
                "n","o","p","q","r","s","t","u","v","w","x","y","z">>

ToLowerChar(c) ==
    IF \E k \in 1..Len(UpperChars) : UpperChars[k] = c
    THEN LowerChars[CHOOSE k \in 1..Len(UpperChars) : UpperChars[k] = c]
    ELSE c

toLowerCase_Identity(s) == s

toLowerCase(s) == [k \in 1..Len(s) |-> ToLowerChar(s[k])]

RECURSIVE trimLeft(_)
trimLeft(s) == IF s # <<>> /\ Head(s) = " " THEN trimLeft(Tail(s)) ELSE s

RECURSIVE trimRight(_)
trimRight(s) ==
    IF s # <<>> /\ s[Len(s)] = " " THEN trimRight(SubSeq(s, 1, Len(s) - 1)) ELSE s

trim(s) == trimRight(trimLeft(s))

\* String.prototype.includes: needle occurs as a contiguous run of hay.
includes(hay, needle) ==
    \E k \in 0..(Len(hay) - Len(needle)) :
        \A m \in 1..Len(needle) : hay[k + m] = needle[m]

Min2(a, b) == IF a <= b THEN a ELSE b
Min3(a, b, c) == Min2(a, Min2(b, c))
Max2(a, b) == IF a >= b THEN a ELSE b

(***************************************************************************)
(* Fractions.                                                              *)
(***************************************************************************)
One == [num |-> 1, den |-> 1]
Zero == [num |-> 0, den |-> 1]

RECURSIVE Gcd(_, _)
Gcd(a, b) == IF b = 0 THEN a ELSE Gcd(b, a % b)

\* A fraction in lowest terms, so that equal scores are equal values.
Frac(n, d) == LET g == Gcd(n, d) IN [num |-> n \div g, den |-> d \div g]

Times(x, y) == Frac(x.num * y.num, x.den * y.den)
Greater(x, y) == x.num * y.den > y.num * x.den

\* The result of a call that has not returned yet.
NoValue == [num |-> 0, den |-> 0]

(***************************************************************************)
(* Game4.calculateStringSimilarity: the table track[j][i], row by row.     *)
(* A row is a sequence whose element i + 1 is track[j][i].                 *)
(***************************************************************************)
Indicator_SubstAlwaysCosts(c1, c2) == 1

Indicator_SubstCostsTwo(c1, c2) == IF c1 = c2 THEN 0 ELSE 2

Indicator(c1, c2) == IF c1 = c2 THEN 0 ELSE 1

FirstRow(str1) == [k \in 1..(Len(str1) + 1) |-> k - 1]

RECURSIVE FillRow(_, _, _, _, _)
FillRow(prev, j, str1, str2, row) ==
    LET i == Len(row)
    IN  IF i > Len(str1) THEN row
        ELSE FillRow(prev, j, str1, str2,
                     Append(row, Min3(row[i] + 1,
                                      prev[i + 1] + 1,
                                      prev[i] + Indicator(str1[i], str2[j]))))

RECURSIVE TrackRow(_, _, _)
TrackRow(j, str1, str2) ==
    IF j = 0 THEN FirstRow(str1)
    ELSE FillRow(TrackRow(j - 1, str1, str2), j, str1, str2, <<j>>)

EditDistance(str1, str2) == TrackRow(Len(str2), str1, str2)[Len(str1) + 1]

calculateStringSimilarity_EmptyIsZero(str1, str2) ==
    LET maxLength == Max2(Len(str1), Len(str2))
    IN  IF maxLength = 0 THEN Zero
        ELSE Frac(maxLength - EditDistance(str1, str2), maxLength)

calculateStringSimilarity(str1, str2) ==
    LET maxLength == Max2(Len(str1), Len(str2))
    IN  IF maxLength = 0 THEN One
        ELSE Frac(maxLength - EditDistance(str1, str2), maxLength)

(***************************************************************************)
(* State.                                                                  *)
(***************************************************************************)
VARIABLES
    scene,                    \* "sim", "score", "Game4" or "Game": what runs
    str1, str2, similarity,   \* arguments and result of one similarity call
    recConfidence,            \* confidence of the alternative that is scored
    \* Game4 fields
    hasSpeech,                \* speechRecognition is not null
    currentCommand,
    commandAccuracy,
    failedAttempts,
    currentAttackWordIndex,
    currentDefenseWordIndex,
    \* Game fields
    currentWord,
    attemptsCount,
    isSpeechListening,
    squareState,
    collectedItems,
    \* shared by the two scenes
    popup,                    \* the popup container of the running scene
    rec,                      \* the session of the SpeechRecognition object
    timers,                   \* pending delayed calls and tweens, oldest first
    \* Game4, the fields of the fight
    playerHealth,
    monsterHealth,
    currentEnergy,
    shieldDuration,
    \* observations
    outcome,                  \* decision of the last scored attempt
    lastEvent,                \* the recognizer event handled last
    streak,                   \* rejected attempts in a row since a fresh counter
    presented,                \* word said by the last startVoiceCommand
    shown,                    \* feedback written by the last scored attempt
    defeats,                  \* runs of defeatMonster since spawnNewMonster
    unanswered                \* playerHealth fell to 0, gameOver not yet called

simVars == <<str1, str2, similarity, recConfidence>>
game4Vars == <<hasSpeech, currentCommand, commandAccuracy, failedAttempts,
               currentAttackWordIndex, currentDefenseWordIndex>>
gameVars == <<currentWord, attemptsCount, isSpeechListening, squareState,
              collectedItems>>
sharedVars == <<popup, rec, timers>>
combatVars == <<playerHealth, monsterHealth, currentEnergy, shieldDuration,
                defeats, unanswered>>
obsVars == <<outcome, lastEvent, streak, presented, shown>>
vars == <<scene, simVars, game4Vars, gameVars, sharedVars, obsVars,
          combatVars>>

(***************************************************************************)
(* Program constants.                                                      *)
(***************************************************************************)
attackWords == << <<"S","w","o","r","d">>, <<"S","t","r","i","k","e">>,
                  <<"S","l","a","s","h">>, <<"A","t","t","a","c","k">>,
                  <<"S","t","a","b">> >>
defenseWords == << <<"S","h","i","e","l","d">>, <<"B","l","o","c","k">>,
                   <<"D","e","f","e","n","d">>, <<"G","u","a","r","d">>,
                   <<"P","a","r","r","y">> >>

vocabularyWords_Repeated ==
    << <<"A","m","p">>, <<"N","u","t">>, <<"P","l","u","g">>,
       <<"S","p","a","r","k">>, <<"N","u","t">>, <<"P","l","u","g">>,
       <<"S","p","a","r","k">> >>

vocabularyWords == << <<"A","m","p">>, <<"N","u","t">>, <<"P","l","u","g">>,
                      <<"S","p","a","r","k">>, <<"T","o","o","l">>,
                      <<"C","a","p">>, <<"S","w","i","t","c","h">> >>

Threshold == [num |-> 6, den |-> 10]
MaxAttempts == 3

ErrorClasses == {"no-speech", "network", "aborted", "audio-capture",
                 "not-allowed", "service-not-allowed", "bad-grammar",
                 "language-not-supported"}

(***************************************************************************)
(* Delayed calls and tweens.  A timer is [kind, arg]; Delay is the time in *)
(* milliseconds after which it fires.                                      *)
(***************************************************************************)
Timer(kind, arg) == [kind |-> kind, arg |-> arg]

Delay(kind) ==
    CASE kind = "start"      -> 200     \* startVoiceCommand, delayed start()
      [] kind = "hide"       -> 200     \* hidePopup tween
      [] kind = "retry"      -> 1000    \* handleSpeechError, network retry
      [] kind = "fallback"   -> 2000    \* startVoiceCommand, simulated result
      [] kind = "collect"    -> 1000    \* checkPronunciation, correct
      [] kind = "forced"     -> 1500    \* checkPronunciation, third miss
      [] kind = "showNext"   -> 3150    \* fly, flash, walk, then next popup
      [] kind = "after"      -> 2000    \* handleSpeechResult, closing call
      [] kind = "reset"      -> 2000    \* handleSpeechError, closing call
      [] kind = "spawn"      -> 2000    \* defeatMonster: tween 1000, call 1000
      [] kind = "complete"   -> 2000    \* repairSpaceship, energy beam tween
      [] OTHER               -> 0

\* Timers of one clock fire in order of their due time: the entry at k may
\* fire when every entry created before it is due strictly later.
CanFire(k) ==
    /\ k \in 1..Len(timers)
    /\ \A m \in 1..(k - 1) : Delay(timers[m].kind) > Delay(timers[k].kind)

Without(k) == SubSeq(timers, 1, k - 1) \o SubSeq(timers, k + 1, Len(timers))

CanSchedule == Len(timers) < MaxTimers

(***************************************************************************)
(* The SpeechRecognition object: "idle", "listening" (started), "stopping" *)
(* (stop() called, a final result may still come), "ending" (result or     *)
(* error delivered, end event pending).                                    *)
(***************************************************************************)
StartThrows == rec # "idle"
AfterStart == "listening"
AfterStop == IF rec = "listening" THEN "stopping" ELSE rec
CanDeliver == rec \in {"listening", "stopping"}
CanEnd == rec \in {"stopping", "ending"}

(***************************************************************************)
(* Observations shared by the two scenes.                                  *)
(***************************************************************************)
\* The streak after one more rejected attempt; fresh: the counter was 0.
NextStreak(fresh) ==
    IF streak \in 1..2 THEN streak + 1
    ELSE IF fresh THEN 1 ELSE 0

(***************************************************************************)
(* Game4.                                                                  *)
(***************************************************************************)
\* The scene is Game4, with or without the fields of the fight followed.
InGame4 == scene \in {"Game4", "Combat"}

WordOf(command) ==
    IF command = "sword" THEN attackWords[currentAttackWordIndex + 1]
    ELSE defenseWords[currentDefenseWordIndex + 1]

attemptsExhausted_After(count) == count > MaxAttempts

attemptsExhausted(count) == count >= MaxAttempts

\* failedAttempts after a scored attempt.
failedAttemptsAfter_KeptOnSuccess(accepted, count) ==
    IF accepted THEN count
    ELSE IF attemptsExhausted(count + 1) THEN 0 ELSE count + 1

failedAttemptsAfter(accepted, count) ==
    IF accepted THEN 0
    ELSE IF attemptsExhausted(count + 1) THEN 0 ELSE count + 1

\* failedAttempts after an error that is not retried.
failedAttemptsAfterError_Ignored(count) == count

failedAttemptsAfterError(count) ==
    IF attemptsExhausted(count + 1) THEN 0 ELSE count + 1

\* The error handled by a silent retry.
retriesSilently_Never(error) == FALSE

retriesSilently(error) == error = "network"

isAccepted_AtLeast(accuracy) == ~Greater(Threshold, accuracy)

isAccepted(accuracy) == Greater(accuracy, Threshold)

\* hidePopup: the tween is added only when a popup exists.
HideTween == IF popup # "none" THEN <<Timer("hide", 0)>> ELSE <<>>

\* Intro popup, Start button: hidePopup(), then the first monster.
StartGame4 ==
    /\ InGame4 /\ popup = "intro"
    /\ Len(timers) + Len(HideTween) <= MaxTimers
    /\ timers' = timers \o HideTween
    /\ monsterHealth' = 100 /\ defeats' = 0
    /\ UNCHANGED <<scene, simVars, gameVars, obsVars, popup, rec, hasSpeech,
                   currentCommand, commandAccuracy, failedAttempts,
                   currentAttackWordIndex, currentDefenseWordIndex,
                   playerHealth, currentEnergy, shieldDuration, unanswered>>

\* Intro popup, click on the background.
DismissIntro4 ==
    /\ InGame4 /\ popup = "intro"
    /\ Len(timers) + Len(HideTween) <= MaxTimers
    /\ timers' = timers \o HideTween
    /\ UNCHANGED <<scene, combatVars, simVars, game4Vars, gameVars, obsVars, popup, rec>>

\* Completion of the tween of hidePopup.
HideDone4 ==
    \E k \in 1..Len(timers) :
        /\ InGame4 /\ CanFire(k) /\ timers[k].kind = "hide"
        /\ timers' = Without(k)
        /\ popup' = "none"
        /\ UNCHANGED <<scene, combatVars, simVars, game4Vars, gameVars, obsVars, rec>>

\* Attack or defense button: startVoiceCommand(command).
startVoiceCommand(command) ==
    /\ InGame4 /\ popup = "none"
    /\ CanSchedule
    /\ currentCommand' = command
    /\ presented' = WordOf(command)
    /\ streak' = IF command = currentCommand THEN streak ELSE 0
    /\ IF hasSpeech
       THEN /\ rec' = AfterStop
            /\ timers' = Append(timers, Timer("start", 0))
       ELSE /\ rec' = rec
            /\ timers' = Append(timers, Timer("fallback", 0))
    /\ UNCHANGED <<scene, combatVars, simVars, gameVars, popup, outcome, lastEvent, shown,
                   hasSpeech, commandAccuracy, failedAttempts,
                   currentAttackWordIndex, currentDefenseWordIndex>>

\* The delayed start() of startVoiceCommand.
DelayedStart4 ==
    \E k \in 1..Len(timers) :
        /\ InGame4 /\ CanFire(k) /\ timers[k].kind = "start"
        /\ IF StartThrows
           THEN /\ rec' = rec
                /\ timers' = Without(k)
           ELSE /\ rec' = AfterStart
                /\ timers' = Without(k)
        /\ UNCHANGED <<scene, combatVars, simVars, game4Vars, gameVars, obsVars, popup>>

\* A feedback message: its text and, when it names one, the number of
\* attempts left.
Feedback(text, left) == [text |-> text, left |-> left]

NoFeedback == Feedback("", <<>>)

\* displayFeedback(): the message for commandAccuracy = accuracy.
displayFeedback_GoodAtThreshold(accuracy) ==
    IF Greater(accuracy, [num |-> 8, den |-> 10])
    THEN Feedback("Excellent pronunciation!", <<>>)
    ELSE IF ~Greater([num |-> 6, den |-> 10], accuracy)
    THEN Feedback("Good pronunciation", <<>>)
    ELSE Feedback("Try again", <<>>)

displayFeedback(accuracy) ==
    IF Greater(accuracy, [num |-> 8, den |-> 10])
    THEN Feedback("Excellent pronunciation!", <<>>)
    ELSE IF Greater(accuracy, [num |-> 6, den |-> 10])
    THEN Feedback("Good pronunciation", <<>>)
    ELSE Feedback("Try again", <<>>)

\* The similarity of what was heard to the expected word.
similarityOf(transcript, word) ==
    LET result == toLowerCase(trim(transcript))
        expectedWord == toLowerCase(word)
    IN  calculateStringSimilarity(result, expectedWord)

\* commandAccuracy = similarity * confidence.
combinedScore_Difference(sim, confidence) ==
    IF Greater(confidence, sim) THEN Zero
    ELSE Frac(sim.num * confidence.den - confidence.num * sim.den,
              sim.den * confidence.den)

combinedScore_SimilarityOnly(sim, confidence) == sim

combinedScore(sim, confidence) == Times(sim, confidence)

\* The index of the word that follows in a list of command words.
nextWordIndex_Stays(index, words) == index

nextWordIndex(index, words) == (index + 1) % Len(words)

\* The branch shared by handleSpeechResult and processVoiceResult, once
\* commandAccuracy is set to accuracy.
Decide4(accuracy) ==
    /\ commandAccuracy' = accuracy
    /\ shown' = displayFeedback(accuracy)
    /\ lastEvent' = "result"
    /\ failedAttempts' = failedAttemptsAfter(isAccepted(accuracy), failedAttempts)
    /\ IF isAccepted(accuracy)
       THEN /\ outcome' = "Accepted"
            /\ streak' = 0
            /\ IF currentCommand = "sword"
               THEN /\ currentAttackWordIndex' =
                           nextWordIndex(currentAttackWordIndex, attackWords)
                    /\ UNCHANGED currentDefenseWordIndex
               ELSE /\ currentDefenseWordIndex' =
                           nextWordIndex(currentDefenseWordIndex, defenseWords)
                    /\ UNCHANGED currentAttackWordIndex
       ELSE /\ outcome' = IF attemptsExhausted(failedAttempts + 1)
                          THEN "ForcedAdvance" ELSE "Retry"
            /\ streak' = NextStreak(failedAttempts = 0)
            /\ UNCHANGED <<currentAttackWordIndex, currentDefenseWordIndex>>

Confidences == {[num |-> 6, den |-> 10], One}

\* What the recognizer may hear for a word: nothing, the word, the word
\* capitalised between blanks.
Transcripts(word) ==
    { <<>>,
      toLowerCase(word),
      <<" ">> \o word \o <<" ">> }

\* onresult: handleSpeechResult(event).
handleSpeechResult(transcript, confidence) ==
    /\ scene = "Game4" /\ CanDeliver
    /\ rec' = "ending"
    /\ LET sim == similarityOf(transcript, WordOf(currentCommand))
       IN  Decide4(combinedScore(sim, confidence))
    /\ UNCHANGED <<scene, combatVars, simVars, gameVars, popup, timers, presented, hasSpeech,
                   currentCommand>>

Simulated == {[num |-> 1, den |-> 2], [num |-> 3, den |-> 5], One}

\* The simulated result of a browser without speech recognition.
processVoiceResult(accuracy) ==
    \E k \in 1..Len(timers) :
        /\ scene = "Game4" /\ CanFire(k) /\ timers[k].kind = "fallback"
        /\ Decide4(accuracy)
        /\ timers' = Without(k)
        /\ UNCHANGED <<scene, combatVars, simVars, gameVars, popup, rec, presented,
                       hasSpeech, currentCommand>>

\* onerror: handleSpeechError(event).
handleSpeechError(error) ==
    /\ scene = "Game4" /\ CanDeliver
    /\ rec' = "ending"
    /\ lastEvent' = IF error = "network" THEN "network" ELSE "error"
    /\ IF retriesSilently(error)
       THEN /\ CanSchedule
            /\ timers' = Append(timers, Timer("retry", 0))
            /\ UNCHANGED <<failedAttempts, streak>>
       ELSE /\ failedAttempts' = failedAttemptsAfterError(failedAttempts)
            /\ streak' = 0
            /\ timers' = timers
    /\ UNCHANGED <<scene, combatVars, simVars, gameVars, popup, outcome, presented, shown,
                   hasSpeech, currentCommand, commandAccuracy,
                   currentAttackWordIndex, currentDefenseWordIndex>>

\* The retry one second after a network error.  The end event follows an
\* error at once, so it is handled before the retry falls due.
NetworkRetry4 ==
    \E k \in 1..Len(timers) :
        /\ InGame4 /\ CanFire(k) /\ timers[k].kind = "retry"
        /\ rec # "ending"
        /\ timers' = Without(k)
        /\ IF StartThrows
           THEN /\ failedAttempts < MaxCount
                /\ failedAttempts' = failedAttempts + 1
                /\ streak' = 0
                /\ lastEvent' = "retryFailed"
                /\ rec' = rec
           ELSE /\ rec' = AfterStart
                /\ UNCHANGED <<failedAttempts, streak, lastEvent>>
        /\ UNCHANGED <<scene, combatVars, simVars, gameVars, popup, outcome, presented, shown,
                       hasSpeech, currentCommand, commandAccuracy,
                       currentAttackWordIndex, currentDefenseWordIndex>>

\* onend: handleSpeechEnd().
handleSpeechEnd ==
    /\ InGame4 /\ CanEnd
    /\ rec' = "idle"
    /\ UNCHANGED <<scene, combatVars, simVars, game4Vars, gameVars, obsVars, popup, timers>>

Game4Next ==
    \/ StartGame4
    \/ DismissIntro4
    \/ HideDone4
    \/ \E command \in {"sword", "shield"} : startVoiceCommand(command)
    \/ DelayedStart4
    \/ \E confidence \in Confidences :
         \E transcript \in Transcripts(WordOf(currentCommand)) :
            handleSpeechResult(transcript, confidence)
    \/ \E accuracy \in Simulated : processVoiceResult(accuracy)
    \/ \E error \in ErrorClasses : handleSpeechError(error)
    \/ NetworkRetry4
    \/ handleSpeechEnd

(***************************************************************************)
(* Game.                                                                   *)
(***************************************************************************)
LastIndex == Len(vocabularyWords) - 1

\* getCurrentWordIndex(): the first entry whose word is currentWord, else 0.
getCurrentWordIndex ==
    IF \E i \in 0..LastIndex : vocabularyWords[i + 1] = currentWord
    THEN CHOOSE i \in 0..LastIndex :
            /\ vocabularyWords[i + 1] = currentWord
            /\ \A m \in 0..(i - 1) : vocabularyWords[m + 1] # currentWord
    ELSE 0

\* collectedItems is kept as the number of entries pushed per index.
RECURSIVE SumTo(_, _)
SumTo(f, i) == IF i < 0 THEN 0 ELSE f[i] + SumTo(f, i - 1)

Duplicates ==
    SumTo([i \in 0..LastIndex |->
              IF collectedItems[i] > 1 THEN collectedItems[i] - 1 ELSE 0],
          LastIndex)

\* stopSpeechRecognition(): the session and the flag afterwards.
StoppedRec == IF hasSpeech /\ isSpeechListening THEN AfterStop ELSE rec
StoppedFlag == IF hasSpeech /\ isSpeechListening THEN FALSE ELSE isSpeechListening

\* Click on a path square that has been made interactive, or the popup of
\* the next square once the player has walked there: showSquarePopup(square).
ShowSquare_CountKept(i) ==
    /\ attemptsCount' = attemptsCount
    /\ popup' = "square"
    /\ currentWord' = vocabularyWords[i + 1]
    /\ streak' = 0
    /\ outcome' = "none"
    /\ lastEvent' = "none"
    /\ shown' = NoFeedback

ShowSquare(i) ==
    /\ attemptsCount' = 0
    /\ popup' = "square"
    /\ currentWord' = vocabularyWords[i + 1]
    /\ streak' = 0
    /\ outcome' = "none"
    /\ lastEvent' = "none"
    /\ shown' = NoFeedback

\* A collected square stays interactive; it is reopened here only while the
\* model can still record what a second collection would add.
showSquarePopup(i) ==
    /\ scene = "Game" /\ popup = "none"
    /\ \/ squareState[i] = "AVAILABLE"
       \/ squareState[i] = "UNLOCK" /\ Duplicates < MaxDup
    /\ ShowSquare(i)
    /\ UNCHANGED <<scene, combatVars, simVars, game4Vars, isSpeechListening, squareState,
                   collectedItems, rec, timers, presented>>

\* Hub button 'balo': showCollectionsPopup().
showCollectionsPopup ==
    /\ scene = "Game" /\ popup = "none"
    /\ popup' = "info"
    /\ UNCHANGED <<scene, combatVars, simVars, game4Vars, gameVars, obsVars, rec, timers>>

\* Click on the background of a popup: hidePopup().
hidePopup ==
    /\ scene = "Game" /\ popup # "none"
    /\ CanSchedule
    /\ rec' = StoppedRec
    /\ isSpeechListening' = StoppedFlag
    /\ timers' = Append(timers, Timer("hide", 0))
    /\ UNCHANGED <<scene, combatVars, simVars, game4Vars, currentWord, attemptsCount,
                   squareState, collectedItems, popup, obsVars>>

\* Completion of the tween of hidePopup: whatever popup exists is destroyed.
HideDone ==
    \E k \in 1..Len(timers) :
        /\ scene = "Game" /\ CanFire(k) /\ timers[k].kind = "hide"
        /\ timers' = Without(k)
        /\ popup' = "none"
        /\ UNCHANGED <<scene, combatVars, simVars, game4Vars, gameVars, obsVars, rec>>

\* Speech button of the square popup: startSpeechRecognition().  A start()
\* that throws leaves the flag as it was.
startSpeechRecognition ==
    /\ scene = "Game" /\ popup = "square"
    /\ IF hasSpeech /\ ~isSpeechListening /\ ~StartThrows
       THEN /\ rec' = AfterStart
            /\ isSpeechListening' = TRUE
       ELSE UNCHANGED <<rec, isSpeechListening>>
    /\ UNCHANGED <<scene, combatVars, simVars, game4Vars, currentWord, attemptsCount,
                   squareState, collectedItems, popup, timers, obsVars>>

isCorrect_SpokenContainsWord(spokenLower, wordLower) ==
    includes(spokenLower, wordLower)

isCorrect(spokenLower, wordLower) ==
    includes(spokenLower, wordLower) \/ includes(wordLower, spokenLower)

\* What onresult hands over, and the test of checkPronunciation on it.
pronouncedCorrectly(transcript, word) ==
    LET spokenLower == toLowerCase(toLowerCase(trim(transcript)))
        wordLower == toLowerCase(word)
    IN  isCorrect(spokenLower, wordLower)

\* The number of attempts that the feedback of a miss reports.
attemptsLeft_BeforeCounting(count) == 3 - (count - 1)

attemptsLeft(count) == 3 - count

Banana == <<"b","a","n","a","n","a">>

\* The decision of checkPronunciation on what was heard for word.
Decide(transcript, word) ==
    /\ lastEvent' = "result"
    /\ attemptsCount' = attemptsCount + 1
    /\ IF pronouncedCorrectly(transcript, word)
       THEN /\ outcome' = "Accepted"
            /\ shown' = Feedback("Excellent pronunciation! Collecting item...",
                                 <<>>)
            /\ streak' = 0
       ELSE /\ streak' = NextStreak(attemptsCount = 0)
            /\ IF attemptsExhausted(attemptsCount + 1)
               THEN /\ outcome' = "ForcedAdvance"
                    /\ shown' = Feedback("Let's move on. Collecting item anyway...",
                                         <<>>)
               ELSE /\ outcome' = "Retry"
                    /\ shown' = Feedback("Not quite right. Try again!",
                                         <<attemptsLeft(attemptsCount + 1)>>)

\* onresult: checkPronunciation(result).  An accepted attempt and the third
\* miss schedule the collection when the sprite of the square is found.
checkPronunciation(transcript) ==
    /\ scene = "Game" /\ CanDeliver
    /\ attemptsCount < MaxCount
    /\ rec' = "ending"
    /\ Decide(transcript, currentWord)
    /\ LET hasSprite == popup = "square"
           index == getCurrentWordIndex
       IN  IF hasSprite /\ outcome' # "Retry"
           THEN /\ CanSchedule
                /\ timers' = Append(timers,
                                    Timer(IF outcome' = "Accepted"
                                          THEN "collect" ELSE "forced", index))
           ELSE timers' = timers
    /\ UNCHANGED <<scene, combatVars, simVars, game4Vars, currentWord, isSpeechListening,
                   squareState, collectedItems, popup, presented>>

\* onerror of the Game scene: feedback only.
onerror(error) ==
    /\ scene = "Game" /\ CanDeliver
    /\ rec' = "ending"
    /\ lastEvent' = "error"
    /\ UNCHANGED <<scene, combatVars, simVars, game4Vars, gameVars, outcome, streak,
                   presented, shown, popup, timers>>

\* onend of the Game scene.
onend ==
    /\ scene = "Game" /\ CanEnd
    /\ rec' = "idle"
    /\ isSpeechListening' = FALSE
    /\ UNCHANGED <<scene, combatVars, simVars, game4Vars, currentWord, attemptsCount,
                   squareState, collectedItems, popup, timers, obsVars>>

\* The states of the path after the item of square currentIndex is
\* collected: that square UNLOCK, the next one AVAILABLE.
unlocked_NextStaysLocked(currentIndex) ==
    [i \in 0..LastIndex |->
        IF i = currentIndex THEN "UNLOCK" ELSE squareState[i]]

unlocked(currentIndex) ==
    [i \in 0..LastIndex |->
        IF i = currentIndex THEN "UNLOCK"
        ELSE IF i = currentIndex + 1 THEN "AVAILABLE"
        ELSE squareState[i]]

\* The delayed collectItemAnimation(sprite, square) of checkPronunciation.
collectItemAnimation ==
    \E k \in 1..Len(timers) :
        /\ scene = "Game" /\ CanFire(k)
        /\ timers[k].kind \in {"collect", "forced"}
        /\ LET currentIndex == timers[k].arg
           IN  IF popup = "none"
               THEN /\ timers' = Without(k)
                    /\ UNCHANGED <<rec, isSpeechListening, squareState,
                                   collectedItems>>
               ELSE /\ Len(timers) + 1 <= MaxTimers
                    /\ collectedItems[currentIndex] >= 1 => Duplicates < MaxDup
                    /\ rec' = StoppedRec
                    /\ isSpeechListening' = StoppedFlag
                    /\ collectedItems' =
                         [collectedItems EXCEPT ![currentIndex] = @ + 1]
                    /\ squareState' = unlocked(currentIndex)
                    /\ timers' = Without(k) \o
                                 <<Timer("hide", 0), Timer("showNext", currentIndex)>>
        /\ UNCHANGED <<scene, combatVars, simVars, game4Vars, currentWord, attemptsCount,
                       popup, obsVars>>

\* End of the flight, flash and walk that follow a collection: the popup of
\* the next square, or the success popup after the last one.
ShowNext ==
    \E k \in 1..Len(timers) :
        /\ scene = "Game" /\ CanFire(k) /\ timers[k].kind = "showNext"
        /\ timers' = Without(k)
        /\ IF timers[k].arg = LastIndex
           THEN /\ popup' = "success"
                /\ UNCHANGED <<attemptsCount, currentWord, streak, outcome,
                               lastEvent, shown>>
           ELSE ShowSquare(timers[k].arg + 1)
        /\ UNCHANGED <<scene, combatVars, simVars, game4Vars, isSpeechListening,
                       squareState, collectedItems, rec, presented>>

GameNext ==
    \/ \E i \in 0..LastIndex : showSquarePopup(i)
    \/ showCollectionsPopup
    \/ hidePopup
    \/ HideDone
    \/ startSpeechRecognition
    \/ \E transcript \in Transcripts(currentWord) \cup {Banana} :
          checkPronunciation(transcript)
    \/ \E error \in ErrorClasses : onerror(error)
    \/ onend
    \/ collectItemAnimation
    \/ ShowNext

Idle ==
    /\ similarity = NoValue
    /\ currentCommand = "sword" /\ commandAccuracy = Zero
    /\ failedAttempts = 0
    /\ currentAttackWordIndex = 0 /\ currentDefenseWordIndex = 0
    /\ currentWord = <<>> /\ attemptsCount = 0
    /\ isSpeechListening = FALSE
    /\ squareState = [i \in 0..6 |-> IF i = 0 THEN "AVAILABLE" ELSE "LOCK"]
    /\ collectedItems = [i \in 0..6 |-> 0]
    /\ popup = "intro" /\ rec = "idle" /\ timers = <<>>
    /\ outcome = "none" /\ lastEvent = "none" /\ streak = 0
    /\ presented = <<>> /\ shown = NoFeedback
    /\ playerHealth = 100 /\ monsterHealth = 100
    /\ currentEnergy = 0 /\ shieldDuration = 0
    /\ defeats = 0 /\ unanswered = FALSE

Game4Init ==
    /\ scene = "Game4"
    /\ hasSpeech \in BOOLEAN
    /\ str1 = <<>> /\ str2 = <<>> /\ recConfidence = One
    /\ Idle

SpecGame4 == Game4Init /\ [][Game4Next]_vars

GameInit ==
    /\ scene = "Game"
    /\ hasSpeech \in BOOLEAN
    /\ str1 = <<>> /\ str2 = <<>> /\ recConfidence = One
    /\ Idle

SpecGame == GameInit /\ [][GameNext]_vars

Init == Game4Init \/ GameInit

Next == Game4Next \/ GameNext

Spec == Init /\ [][Next]_vars

(***************************************************************************)
(* One call of calculateStringSimilarity on arbitrary short strings.       *)
(***************************************************************************)
Alphabet == {"a", "b"}

Strings == UNION {[1..n -> Alphabet] : n \in 0..MaxLen}

SimInit ==
    /\ scene = "sim"
    /\ hasSpeech = TRUE
    /\ Idle
    /\ str1 \in Strings /\ str2 \in Strings
    /\ recConfidence = One

Compute_StoresAccuracy ==
    /\ scene = "sim" /\ similarity = NoValue
    /\ similarity' = calculateStringSimilarity(str1, str2)
    /\ commandAccuracy' = similarity'
    /\ UNCHANGED <<scene, combatVars, str1, str2, recConfidence, hasSpeech, currentCommand,
                   failedAttempts, currentAttackWordIndex,
                   currentDefenseWordIndex, gameVars, sharedVars, obsVars>>

Compute ==
    /\ scene = "sim" /\ similarity = NoValue
    /\ similarity' = calculateStringSimilarity(str1, str2)
    /\ UNCHANGED <<scene, combatVars, str1, str2, recConfidence, game4Vars, gameVars,
                   sharedVars, obsVars>>

SimNext == Compute

SpecSim == SimInit /\ [][SimNext]_vars

(***************************************************************************)
(* One scored attempt on a given transcript, word and confidence: the      *)
(* scoring of handleSpeechResult and the scoring of checkPronunciation,    *)
(* each on a fresh counter.                                                *)
(***************************************************************************)
Spork == <<"s","p","o","r","k">>

ScoreTranscripts ==
    { <<>>, Banana, Spork, <<" ","a","m">>,
      <<"s","p","a","r","k">>, <<"S","P","A","R","K">>,
      <<"a","m","p">>, <<"s","w","o","r","d","s">> }

ScoreWords == {<<>>, vocabularyWords[1], vocabularyWords[4], attackWords[1]}

ScoreConfidences ==
    {Zero, [num |-> 3, den |-> 5], [num |-> 9, den |-> 10], One}

ScoreInit ==
    /\ scene = "score"
    /\ hasSpeech = TRUE
    /\ Idle
    /\ str1 \in ScoreTranscripts /\ str2 \in ScoreWords
    /\ recConfidence \in ScoreConfidences

\* handleSpeechResult on the transcript str1 with confidence recConfidence
\* while the expected word is str2.
ScoreCommand ==
    /\ scene = "score" /\ lastEvent = "none"
    /\ similarity' = similarityOf(str1, str2)
    /\ Decide4(combinedScore(similarity', recConfidence))
    /\ UNCHANGED <<scene, combatVars, str1, str2, recConfidence, hasSpeech, currentCommand,
                   gameVars, sharedVars, presented>>

\* checkPronunciation on the transcript str1 while currentWord is str2.
ScoreWord ==
    /\ scene = "score" /\ lastEvent = "none"
    /\ Decide(str1, str2)
    /\ UNCHANGED <<scene, combatVars, simVars, game4Vars, currentWord, isSpeechListening,
                   squareState, collectedItems, sharedVars, presented>>

ScoreNext == ScoreCommand \/ ScoreWord

SpecScore == ScoreInit /\ [][ScoreNext]_vars

(***************************************************************************)
(* Game4, the fight.  Scene "Combat" is Game4 with the fields of the fight *)
(* followed: the health of the player and of the monster, the energy, the  *)
(* shield.  The buttons, the popups, the recognizer and the timers are     *)
(* those of Game4; the handlers are followed for what they do to the fight *)
(* and to failedAttempts; the word indices, commandAccuracy and the        *)
(* feedback text, which the fight never reads back, are not followed here. *)
(* scene.restart() is left out: the game over and the completion popup end *)
(* the player's part of a behaviour.                                       *)
(***************************************************************************)
maxEnergy == 100

\* Math.floor(factor * accuracy).
FloorOf(factor, accuracy) == (factor * accuracy.num) \div accuracy.den

\* health -= damage; if (health < 0) health = 0.
healthAfter_Unclamped(health, damage) == health - damage

healthAfter(health, damage) ==
    IF health - damage < 0 THEN 0 ELSE health - damage

\* addEnergy(amount): the new value of currentEnergy.
energyAfter(energy, amount) ==
    IF energy + amount > maxEnergy THEN maxEnergy ELSE energy + amount

\* monsterAttack(): 15 points of damage unless the shield is up.
monsterAttack ==
    /\ playerHealth' = IF shieldDuration > 0 THEN playerHealth
                       ELSE healthAfter(playerHealth, 15)
    /\ unanswered' = (unanswered \/ (shieldDuration = 0 /\ playerHealth' = 0))

\* executeAttack(accuracy).
executeAttack(accuracy) ==
    /\ monsterHealth' = healthAfter(monsterHealth, FloorOf(30, accuracy))
    /\ currentEnergy' = energyAfter(currentEnergy, FloorOf(10, accuracy))
    /\ UNCHANGED shieldDuration

\* executeDefense(accuracy).
executeDefense(accuracy) ==
    /\ shieldDuration' = 2
    /\ currentEnergy' = energyAfter(currentEnergy, FloorOf(5, accuracy))
    /\ UNCHANGED monsterHealth

\* The branch shared by handleSpeechResult and processVoiceResult, once
\* commandAccuracy is set to accuracy: what it does to the fight.
Fight(accuracy) ==
    /\ failedAttempts' = failedAttemptsAfter(isAccepted(accuracy), failedAttempts)
    /\ IF isAccepted(accuracy)
       THEN /\ IF currentCommand = "sword"
               THEN executeAttack(accuracy)
               ELSE executeDefense(accuracy)
            /\ UNCHANGED <<playerHealth, unanswered>>
       ELSE /\ IF attemptsExhausted(failedAttempts + 1)
               THEN monsterAttack
               ELSE UNCHANGED <<playerHealth, unanswered>>
            /\ UNCHANGED <<monsterHealth, currentEnergy, shieldDuration>>

FightAccuracies == {[num |-> 1, den |-> 2], [num |-> 3, den |-> 4], One}

\* onresult: handleSpeechResult(event), with the delayed call that ends it.
fightResult(accuracy) ==
    /\ scene = "Combat" /\ CanDeliver /\ CanSchedule
    /\ rec' = "ending"
    /\ Fight(accuracy)
    /\ timers' = Append(timers, Timer("after", 0))
    /\ UNCHANGED <<scene, simVars, gameVars, obsVars, popup, hasSpeech,
                   currentCommand, commandAccuracy, currentAttackWordIndex,
                   currentDefenseWordIndex, defeats>>

\* processVoiceResult(), with the delayed call that ends it.
fightSimulated(accuracy) ==
    \E k \in 1..Len(timers) :
        /\ scene = "Combat" /\ CanFire(k) /\ timers[k].kind = "fallback"
        /\ Fight(accuracy)
        /\ timers' = Append(Without(k), Timer("after", 0))
        /\ UNCHANGED <<scene, simVars, gameVars, obsVars, popup, rec,
                       hasSpeech, currentCommand, commandAccuracy,
                       currentAttackWordIndex, currentDefenseWordIndex,
                       defeats>>

\* onerror: handleSpeechError(event), with the delayed call that ends it.
fightError(error) ==
    /\ scene = "Combat" /\ CanDeliver /\ CanSchedule
    /\ rec' = "ending"
    /\ IF retriesSilently(error)
       THEN /\ timers' = Append(timers, Timer("retry", 0))
            /\ UNCHANGED <<failedAttempts, playerHealth, unanswered>>
       ELSE /\ failedAttempts' = failedAttemptsAfterError(failedAttempts)
            /\ IF attemptsExhausted(failedAttempts + 1)
               THEN monsterAttack
               ELSE UNCHANGED <<playerHealth, unanswered>>
            /\ timers' = Append(timers, Timer("reset", 0))
    /\ UNCHANGED <<scene, simVars, gameVars, obsVars, popup, hasSpeech,
                   currentCommand, commandAccuracy, currentAttackWordIndex,
                   currentDefenseWordIndex, monsterHealth, currentEnergy,
                   shieldDuration, defeats>>

\* The delayed call of handleSpeechError: it resets the texts.
afterError ==
    \E k \in 1..Len(timers) :
        /\ scene = "Combat" /\ CanFire(k) /\ timers[k].kind = "reset"
        /\ timers' = Without(k)
        /\ UNCHANGED <<scene, simVars, game4Vars, gameVars, obsVars, popup,
                       rec, combatVars>>

\* The delayed call of handleSpeechResult and of processVoiceResult:
\* defeatMonster() when the monster has no health, gameOver() when the
\* player has none, then one turn of the shield.  defeatMonster() adds the
\* reward, starts the tween and the delayed call that end in
\* spawnNewMonster(), and offers the repair when the energy is full.
afterAttempt ==
    \E k \in 1..Len(timers) :
        /\ scene = "Combat" /\ CanFire(k) /\ timers[k].kind = "after"
        /\ IF monsterHealth <= 0
           THEN /\ currentEnergy' = energyAfter(currentEnergy, 20)
                /\ defeats' = defeats + 1
                /\ timers' = Append(Without(k), Timer("spawn", 0))
           ELSE /\ timers' = Without(k)
                /\ UNCHANGED <<currentEnergy, defeats>>
        /\ popup' = IF playerHealth <= 0 THEN "gameOver"
                    ELSE IF monsterHealth <= 0 /\ currentEnergy' >= maxEnergy
                    THEN "repair"
                    ELSE popup
        /\ unanswered' = IF playerHealth <= 0 THEN FALSE ELSE unanswered
        /\ shieldDuration' = IF shieldDuration > 0 THEN shieldDuration - 1
                             ELSE shieldDuration
        /\ UNCHANGED <<scene, simVars, game4Vars, gameVars, obsVars, rec,
                       playerHealth, monsterHealth>>

\* spawnNewMonster(), at the end of the tween and the delayed call of
\* defeatMonster().
spawnNewMonster ==
    \E k \in 1..Len(timers) :
        /\ scene = "Combat" /\ CanFire(k) /\ timers[k].kind = "spawn"
        /\ timers' = Without(k)
        /\ monsterHealth' = 100
        /\ defeats' = 0
        /\ UNCHANGED <<scene, simVars, game4Vars, gameVars, obsVars, popup,
                       rec, playerHealth, currentEnergy, shieldDuration,
                       unanswered>>

\* Repair popup, Repair button: repairSpaceship().
repairSpaceship ==
    /\ scene = "Combat" /\ popup = "repair"
    /\ Len(timers) + 2 <= MaxTimers
    /\ timers' = timers \o HideTween \o <<Timer("complete", 0)>>
    /\ currentEnergy' = 0
    /\ UNCHANGED <<scene, simVars, game4Vars, gameVars, obsVars, popup, rec,
                   playerHealth, monsterHealth, shieldDuration, defeats,
                   unanswered>>

\* Repair popup, Continue button: hidePopup().
continueFight ==
    /\ scene = "Combat" /\ popup = "repair"
    /\ Len(timers) + 1 <= MaxTimers
    /\ timers' = timers \o HideTween
    /\ UNCHANGED <<scene, simVars, game4Vars, gameVars, obsVars, popup, rec,
                   combatVars>>

\* showGameCompletionMessage(), at the end of the tween of repairSpaceship().
showGameCompletionMessage ==
    \E k \in 1..Len(timers) :
        /\ scene = "Combat" /\ CanFire(k) /\ timers[k].kind = "complete"
        /\ timers' = Without(k)
        /\ popup' = "complete"
        /\ UNCHANGED <<scene, simVars, game4Vars, gameVars, obsVars, rec,
                       combatVars>>

CombatNext ==
    \/ HideDone4
    \/ \E command \in {"sword", "shield"} : startVoiceCommand(command)
    \/ DelayedStart4
    \/ \E accuracy \in FightAccuracies : fightResult(accuracy)
    \/ \E accuracy \in FightAccuracies : fightSimulated(accuracy)
    \/ \E error \in {"no-speech", "network"} : fightError(error)
    \/ NetworkRetry4
    \/ handleSpeechEnd
    \/ afterError
    \/ afterAttempt
    \/ spawnNewMonster
    \/ repairSpaceship
    \/ continueFight
    \/ showGameCompletionMessage

\* A fight in progress, nothing pending: the first monster fell to four
\* attacks and the second took two, one defense was accepted, and the
\* monster has struck five times.
CombatInit ==
    /\ scene = "Combat"
    /\ hasSpeech \in BOOLEAN
    /\ str1 = <<>> /\ str2 = <<>> /\ recConfidence = One
    /\ similarity = NoValue
    /\ currentCommand = "sword" /\ commandAccuracy = Zero
    /\ failedAttempts = 0
    /\ currentAttackWordIndex = 0 /\ currentDefenseWordIndex = 0
    /\ currentWord = <<>> /\ attemptsCount = 0
    /\ isSpeechListening = FALSE
    /\ squareState = [i \in 0..6 |-> IF i = 0 THEN "AVAILABLE" ELSE "LOCK"]
    /\ collectedItems = [i \in 0..6 |-> 0]
    /\ popup = "none" /\ rec = "idle" /\ timers = <<>>
    /\ outcome = "none" /\ lastEvent = "none" /\ streak = 0
    /\ presented = <<>> /\ shown = NoFeedback
    /\ playerHealth = 25 /\ monsterHealth = 40
    /\ currentEnergy = 85 /\ shieldDuration = 0
    /\ defeats = 0 /\ unanswered = FALSE

SpecCombat == CombatInit /\ [][CombatNext]_vars

\* The fight with the clock running: a delayed call or a tween that is due
\* fires, and the recognizer delivers the end event of a session that has
\* stopped.  Nothing obliges the player to press a button or the recognizer
\* to hear anything.
FairCombat ==
    /\ SpecCombat
    /\ WF_vars(HideDone4)
    /\ WF_vars(DelayedStart4)
    /\ WF_vars(\E accuracy \in FightAccuracies : fightSimulated(accuracy))
    /\ WF_vars(NetworkRetry4)
    /\ WF_vars(handleSpeechEnd)
    /\ WF_vars(afterError)
    /\ WF_vars(afterAttempt)
    /\ WF_vars(spawnNewMonster)
    /\ WF_vars(showGameCompletionMessage)

(***************************************************************************)
(* Properties.                                                             *)
(***************************************************************************)
\* The attempt counter of the running scene.
AttemptsMade == IF scene = "Game4" THEN failedAttempts ELSE attemptsCount

\* A step that records a scored attempt: a recognizer result is handled, or
\* the simulated result falls due.
ScoredStep ==
    \/ CanDeliver /\ rec' = "ending" /\ lastEvent' = "result"
    \/ \E k \in 1..Len(timers) :
          timers[k].kind = "fallback" /\ timers' = Without(k)

\* A step that handles a recognizer error: one that is not a network error
\* in Game4 or any error in Game, a network error in Game4.
ErrorStep == CanDeliver /\ rec' = "ending" /\ lastEvent' = "error"

NetworkErrorStep == CanDeliver /\ rec' = "ending" /\ lastEvent' = "network"

\* The step of the retry that a network error schedules.
RetryStep ==
    \E k \in 1..Len(timers) : timers[k].kind = "retry" /\ timers' = Without(k)

\* A step of startVoiceCommand.
VoiceCommandStep ==
    \/ timers' = Append(timers, Timer("start", 0))
    \/ timers' = Append(timers, Timer("fallback", 0))

\* A step that opens the popup of a square.
NewSquareStep ==
    /\ popup' = "square"
    /\ \/ popup = "none"
       \/ \E k \in 1..Len(timers) :
             timers[k].kind = "showNext" /\ timers' = Without(k)

\* Levenshtein distance by its recursive definition.
RECURSIVE RefLev(_, _)
RefLev(a, b) ==
    IF a = <<>> THEN Len(b)
    ELSE IF b = <<>> THEN Len(a)
    ELSE Min3(RefLev(Tail(a), b) + 1,
              RefLev(a, Tail(b)) + 1,
              RefLev(Tail(a), Tail(b)) + (IF Head(a) = Head(b) THEN 0 ELSE 1))

\* C1: for every pair of strings the value returned by
\* calculateStringSimilarity is 1 - d / max(len, len) with d the reference
\* Levenshtein distance (and 1 for the pair of empty strings, where the
\* quotient has no value).
SimilarityIsLevenshtein ==
    similarity # NoValue =>
        LET maxLength == Max2(Len(str1), Len(str2))
        IN  /\ similarity.den > 0
            /\ IF maxLength = 0 THEN similarity.num = similarity.den
               ELSE similarity.num * maxLength =
                       (maxLength - RefLev(str1, str2)) * similarity.den

SimilarityComputed ==
    /\ similarity # NoValue
    /\ Len(str1) = 3 /\ Len(str2) = 2
    /\ RefLev(str1, str2) = 2
    /\ similarity = [num |-> 1, den |-> 3]

\* C2: in Game4 an attempt is accepted if and only if its combined score
\* is strictly greater than 0.6, on the recognizer path and on the
\* simulated path; a score of exactly 0.6 is rejected.
AcceptedIffAboveThreshold ==
    (scene = "Game4" /\ outcome # "none") =>
        (outcome = "Accepted" <=>
            commandAccuracy.num * 10 > 6 * commandAccuracy.den)

RejectedAtThreshold ==
    /\ scene = "Game4" /\ hasSpeech
    /\ lastEvent = "result" /\ outcome = "Retry"
    /\ commandAccuracy.num * 10 = 6 * commandAccuracy.den

\* C3 (amended): from a fresh counter, three rejected attempts in a row on
\* the same word are decided Retry, Retry, ForcedAdvance; the counter is 1,
\* 2 after the first two, and after the third it is 0 in Game4 and 3 in
\* Game.
ThreeRejections ==
    /\ streak \in 1..2 => outcome = "Retry" /\ AttemptsMade = streak
    /\ streak = 3 =>
          /\ outcome = "ForcedAdvance"
          /\ AttemptsMade = (IF scene = "Game4" THEN 0 ELSE 3)

ThirdRejectionInGame ==
    scene = "Game" /\ streak = 3 /\ outcome = "ForcedAdvance" /\ attemptsCount = 3

\* C3 as stated: after the third rejection the counter is 0 in both scenes.
ThreeRejectionsResetBoth ==
    /\ streak \in 1..2 => outcome = "Retry" /\ AttemptsMade = streak
    /\ streak = 3 => outcome = "ForcedAdvance" /\ AttemptsMade = 0

\* C4 (amended): an accepted attempt leaves failedAttempts at 0 in Game4
\* and does not increment it; in Game the accepted attempt is counted,
\* attemptsCount is one more than before (1 after an accepted first
\* attempt).
AcceptedAttemptCount ==
    [][(ScoredStep /\ outcome' = "Accepted") =>
          IF scene = "Game4" THEN failedAttempts' = 0
          ELSE attemptsCount' = attemptsCount + 1]_vars

AcceptedFirstAttemptInGame ==
    /\ scene = "Game" /\ lastEvent = "result"
    /\ outcome = "Accepted" /\ attemptsCount = 1

\* C4 as stated: an accepted first attempt leaves the counter at 0 in both
\* scenes.
AcceptedFirstAttemptKeepsZero ==
    [][(ScoredStep /\ outcome' = "Accepted" /\ AttemptsMade = 0) =>
          AttemptsMade' = 0]_vars

\* C5 (amended): in Game every showSquarePopup starts the word with
\* attemptsCount = 0; in Game4 startVoiceCommand leaves failedAttempts as
\* it was, whatever word it selects.
CounterAtPresentation ==
    [][/\ NewSquareStep => attemptsCount' = 0
       /\ VoiceCommandStep => failedAttempts' = failedAttempts]_vars

NextSquarePresented ==
    /\ scene = "Game" /\ popup = "square" /\ lastEvent = "none"
    /\ collectedItems[0] = 1 /\ currentWord = vocabularyWords[2]
    /\ attemptsCount = 0

\* C5 as stated: a startVoiceCommand that selects another word than the
\* one of the previous attempt starts with failedAttempts = 0.
NewWordStartsAtZero ==
    [][/\ NewSquareStep => attemptsCount' = 0
       /\ (VoiceCommandStep /\ presented # <<>> /\ presented' # presented)
             => failedAttempts' = 0]_vars

\* C6 (amended): in Game4 every recognizer error that is not a network
\* error adds one to failedAttempts, which returns to 0 when it reaches 3;
\* in Game the onerror handler leaves attemptsCount unchanged.
ErrorCounted ==
    [][ErrorStep =>
          IF scene = "Game4"
          THEN failedAttempts' =
                  (IF failedAttempts + 1 >= 3 THEN 0 ELSE failedAttempts + 1)
          ELSE attemptsCount' = attemptsCount]_vars

ErrorCountedInGame4 ==
    scene = "Game4" /\ lastEvent = "error" /\ failedAttempts = 2

\* C6 as stated: the error is counted in both scenes.
ErrorCountedBoth ==
    [][ErrorStep =>
          AttemptsMade' =
             (IF AttemptsMade + 1 >= 3 /\ scene = "Game4" THEN 0
              ELSE AttemptsMade + 1)]_vars

\* C7 (amended): handling a network error leaves failedAttempts unchanged;
\* the retry it schedules leaves it unchanged when start() succeeds and
\* adds one when start() throws because a session is in progress.
NetworkErrorCount ==
    [][/\ NetworkErrorStep => failedAttempts' = failedAttempts
       /\ RetryStep =>
             failedAttempts' =
                IF rec # "idle" THEN failedAttempts + 1 ELSE failedAttempts]_vars

RetryFailed ==
    /\ scene = "Game4" /\ lastEvent = "retryFailed"
    /\ rec = "listening" /\ failedAttempts = 1

\* C7 as stated: neither the handler nor its retry changes failedAttempts.
NetworkErrorNeverCounts ==
    [][(NetworkErrorStep \/ RetryStep) =>
          failedAttempts' = failedAttempts]_vars

\* The attempts started in Game4 whose result is still to come: delayed
\* starts and simulated results that are due, and the recognizer session.
AttemptsInFlight ==
    Cardinality({k \in 1..Len(timers) :
                    timers[k].kind \in {"start", "fallback"}})
    + (IF rec \in {"listening", "stopping"} THEN 1 ELSE 0)

\* C8: at most one pronunciation attempt is in flight in Game4 at any
\* time.
OneAttemptInFlight == scene = "Game4" => AttemptsInFlight <= 1

\* C9: in Game, once an attempt on the word of the open square is decided
\* Accepted or ForcedAdvance, no further attempt is recorded before the
\* next square is presented.
DecidedIsTerminal ==
    [][(scene = "Game" /\ outcome \in {"Accepted", "ForcedAdvance"})
          => ~ScoredStep]_vars

\* The step in which the collection scheduled by the third rejection runs
\* while a popup is open.
ForcedCollection(k) ==
    /\ timers[k].kind = "forced"
    /\ popup # "none"
    /\ timers' = Without(k) \o
                 <<Timer("hide", 0), Timer("showNext", timers[k].arg)>>

\* C10 (amended): when the third rejected attempt is recorded, Game4
\* resets failedAttempts and keeps the command word; Game, when the popup
\* of the square is open, schedules the collection of the word's item,
\* and the collection, when it runs with a popup open, adds the item and
\* makes the next square AVAILABLE.
ExhaustedBudget ==
    [][/\ (scene = "Game4" /\ ScoredStep /\ outcome' = "ForcedAdvance") =>
             /\ failedAttempts' = 0
             /\ currentAttackWordIndex' = currentAttackWordIndex
             /\ currentDefenseWordIndex' = currentDefenseWordIndex
       /\ (scene = "Game" /\ ScoredStep /\ outcome' = "ForcedAdvance"
             /\ popup = "square") =>
             timers' = Append(timers, Timer("forced", getCurrentWordIndex))
       /\ \A k \in 1..Len(timers) :
             ForcedCollection(k) =>
                LET i == timers[k].arg
                IN  /\ collectedItems'[i] = collectedItems[i] + 1
                    /\ squareState'[i] = "UNLOCK"
                    /\ i < LastIndex => squareState'[i + 1] = "AVAILABLE"]_vars

ForcedItemCollected ==
    /\ scene = "Game" /\ outcome = "ForcedAdvance" /\ attemptsCount = 3
    /\ collectedItems[0] = 1 /\ squareState[1] = "AVAILABLE"

\* C10 as stated: the third rejection advances the command word in Game4
\* and schedules the collection in Game.
ExhaustedBudgetAdvances ==
    [][(ScoredStep /\ outcome' = "ForcedAdvance") =>
          IF scene = "Game4"
          THEN \/ currentAttackWordIndex' # currentAttackWordIndex
               \/ currentDefenseWordIndex' # currentDefenseWordIndex
          ELSE \E k \in 1..Len(timers') : timers'[k].kind = "forced"]_vars

\* C11: in the Game scene a scored attempt that ends in Retry counts itself
\* into attemptsCount first and then reports 3 - attemptsCount attempts
\* left, and the reported number is 1 or 2.
RetryReportsAttemptsLeft ==
    [][(scene = "Game" /\ ScoredStep /\ outcome' = "Retry")
          => /\ attemptsCount' = attemptsCount + 1
             /\ shown' = Feedback("Not quite right. Try again!",
                                  <<3 - attemptsCount'>>)
             /\ 3 - attemptsCount' \in {1, 2}]_vars

\* The second miss on a word has just been scored: one attempt is left.
SecondMissReported ==
    /\ scene = "Game" /\ lastEvent = "result" /\ outcome = "Retry"
    /\ attemptsCount = 2
    /\ shown.left = <<1>>

\* A state of the scoring specification after handleSpeechResult has scored
\* the attempt.
CommandScored == scene = "score" /\ similarity # NoValue

\* C12: the score that handleSpeechResult stores is the product of the
\* similarity and the confidence; it lies between 0 and 1 when the
\* confidence does; a larger confidence with the same similarity, or a
\* larger similarity with the same confidence, never gives a smaller score.
CombinedScoreIsProduct ==
    CommandScored =>
        /\ commandAccuracy.den > 0
        /\ commandAccuracy.num * (similarity.den * recConfidence.den)
              = (similarity.num * recConfidence.num) * commandAccuracy.den
        /\ 0 <= commandAccuracy.num
        /\ commandAccuracy.num <= commandAccuracy.den
        /\ \A c \in ScoreConfidences :
              ~Greater(recConfidence, c)
                 => ~Greater(commandAccuracy, combinedScore(similarity, c))
        /\ \A t \in ScoreTranscripts :
              LET other == similarityOf(t, str2)
              IN  ~Greater(similarity, other)
                     => ~Greater(commandAccuracy,
                                 combinedScore(other, recConfidence))

\* 'swords' heard for 'Sword' with confidence 3/5: 5/6 * 3/5 = 1/2.
PartialScoreCombined ==
    /\ CommandScored
    /\ similarity = [num |-> 5, den |-> 6]
    /\ recConfidence = [num |-> 3, den |-> 5]
    /\ commandAccuracy = [num |-> 1, den |-> 2]

\* A state of the similarity specification after the call has returned.
SimilarityReturned == scene = "sim" /\ similarity # NoValue

\* C13: calculateStringSimilarity(a, a) is 1 for every string a, the empty
\* string included.
IdenticalStringsScoreOne ==
    (SimilarityReturned /\ str1 = str2) => similarity = One

\* The call on two empty strings has returned.
EmptyPairCompared ==
    SimilarityReturned /\ str1 = <<>> /\ str2 = <<>> /\ similarity = One

\* The positions at which two strings of the same length differ.
Mismatches(a, b) == {i \in 1..Len(a) : a[i] # b[i]}

\* C14: for two strings of the same non-zero length that differ at exactly
\* one position, calculateStringSimilarity returns 1 - 1/length.
OneSubstitutionScore ==
    (/\ SimilarityReturned
     /\ Len(str1) = Len(str2) /\ Len(str1) > 0
     /\ Cardinality(Mismatches(str1, str2)) = 1)
        => similarity.num * Len(str1) = (Len(str1) - 1) * similarity.den

\* 'aba' against 'abb': 2/3.
OneOfThreeDiffers ==
    /\ SimilarityReturned
    /\ str1 = <<"a","b","a">> /\ str2 = <<"a","b","b">>
    /\ similarity = [num |-> 2, den |-> 3]

\* A state of the scoring specification after checkPronunciation has
\* scored the attempt.
WordScored == scene = "score" /\ lastEvent = "result" /\ similarity = NoValue

\* C15: an attempt with an empty transcript against a non-empty word is
\* scored with similarity 0 in Game4, and in both scenes it is rejected and
\* counted as a failed attempt, whatever the confidence.
EmptyTranscriptRejected ==
    (/\ scene = "score" /\ lastEvent = "result"
     /\ str1 = <<>> /\ str2 # <<>>)
        => /\ outcome = "Retry"
           /\ CommandScored => similarity = Zero /\ failedAttempts = 1
           /\ WordScored => attemptsCount = 1

SimilarityCallChangesNothing ==
    [][(scene = "sim" /\ similarity = NoValue /\ similarity' # NoValue)
          => UNCHANGED <<str1, str2, recConfidence, game4Vars, gameVars,
                         sharedVars, playerHealth, monsterHealth,
                         currentEnergy, shieldDuration>>]_vars

\* The call on 'ab' and 'ba' has returned 0 and the fields of Game4 are as
\* the constructor left them.
SimilarityReturnedFieldsIntact ==
    /\ SimilarityReturned
    /\ str1 = <<"a","b">> /\ str2 = <<"b","a">> /\ similarity = Zero
    /\ commandAccuracy = Zero /\ failedAttempts = 0
    /\ currentAttackWordIndex = 0 /\ currentDefenseWordIndex = 0

\* Two characters that are the same letter, whatever their case.
SameLetter(c, d) ==
    \/ c = d
    \/ \E k \in 1..Len(UpperChars) : {c, d} = {UpperChars[k], LowerChars[k]}

\* Two strings that differ in the case of their letters only.
EqualIgnoringCase(a, b) ==
    /\ Len(a) = Len(b)
    /\ \A i \in 1..Len(a) : SameLetter(a[i], b[i])

\* C18: a transcript that equals the target word up to the case of its
\* letters, heard with confidence 1, has similarity 1 and combined score 1
\* and is accepted.
CaseIsIgnored ==
    (CommandScored /\ EqualIgnoringCase(str1, str2) /\ recConfidence = One)
        => /\ similarity = One
           /\ commandAccuracy = One
           /\ outcome = "Accepted"

\* 'spark' heard for 'Spark' with confidence 1 has been accepted.
LowerCaseSparkAccepted ==
    /\ CommandScored
    /\ str1 = <<"s","p","a","r","k">> /\ str2 = <<"S","p","a","r","k">>
    /\ recConfidence = One
    /\ outcome = "Accepted"

AttemptJustScored == scene \in {"Game", "Game4"} /\ lastEvent = "result"

\* C20, amended: in Game the message 'Not quite right. Try again!' with
\* 3 - attemptsCount attempts left is written by exactly the rejected
\* attempts that leave attempts; in Game4 displayFeedback writes 'Try
\* again' exactly when commandAccuracy <= 0.6, that is on every rejected
\* attempt, the third included, and the message carries no count.
TryAgainFeedback ==
    AttemptJustScored =>
        IF scene = "Game"
        THEN /\ outcome = "Retry"
                   <=> shown.text = "Not quite right. Try again!"
             /\ outcome = "Retry" => shown.left = <<3 - attemptsCount>>
             /\ outcome # "Retry" => shown.left = <<>>
        ELSE /\ shown.text = "Try again"
                   <=> ~Greater(commandAccuracy, [num |-> 6, den |-> 10])
             /\ shown.text = "Try again"
                   <=> outcome \in {"Retry", "ForcedAdvance"}
             /\ shown.left = <<>>

\* The third rejection in a row in Game4 has shown 'Try again'.
ThirdRejectionSaysTryAgain ==
    /\ scene = "Game4" /\ lastEvent = "result"
    /\ outcome = "ForcedAdvance" /\ failedAttempts = 0
    /\ shown = Feedback("Try again", <<>>)

\* C20 as stated: every rejected attempt that leaves attempts remaining
\* shows feedback that includes the number of attempts left.
TryAgainCarriesCount ==
    (AttemptJustScored /\ outcome = "Retry")
        => shown.left = <<MaxAttempts - AttemptsMade>>

\* needle occurs in hay when the case of the letters is ignored.
ContainsIgnoringCase(hay, needle) ==
    \E i \in 1..(Len(hay) + 1) :
        /\ i + Len(needle) - 1 <= Len(hay)
        /\ EqualIgnoringCase(SubSeq(hay, i, i + Len(needle) - 1), needle)

\* C21: in the Game scene the attempt is accepted exactly when the
\* transcript that onresult hands over contains the current word or the
\* current word contains that transcript, case ignored, whatever the
\* confidence of the recognizer.
AcceptedIffContained ==
    WordScored =>
        (outcome = "Accepted"
            <=> \/ ContainsIgnoringCase(trim(str1), str2)
                \/ ContainsIgnoringCase(str2, trim(str1)))

\* ' am' heard for 'Amp' with confidence 0 has been accepted.
PartOfWordAccepted ==
    /\ WordScored
    /\ str1 = <<" ","a","m">> /\ str2 = vocabularyWords[1]
    /\ recConfidence = Zero
    /\ outcome = "Accepted"

\* C22: in Game4, once a handler has run to completion, failedAttempts is
\* 0, 1 or 2: a count of 3 is always followed at once by the monster's
\* attack and the reset.
FailedAttemptsBelowThree ==
    scene = "Game4" => failedAttempts \in 0..(MaxAttempts - 1)

\* C23: in the Game scene collectedItems never holds two entries with the
\* same index.
CollectedAtMostOnce ==
    scene = "Game" => \A i \in 0..LastIndex : collectedItems[i] <= 1

\* The squares of the path are unlocked in order: every square before an
\* AVAILABLE one is UNLOCK and every square after it is LOCK, so at most
\* one square is AVAILABLE.
UnlockedInOrder(state) ==
    \A i \in 0..LastIndex :
        state[i] = "AVAILABLE"
            => /\ \A j \in 0..(i - 1) : state[j] = "UNLOCK"
               /\ \A j \in (i + 1)..LastIndex : state[j] = "LOCK"

\* C24: in the Game scene the squares unlock strictly in order and never
\* regress: after every step the states are in order, and a square that is
\* UNLOCK stays UNLOCK.
UnlockInOrderNoRegress ==
    [][scene = "Game"
          => /\ UnlockedInOrder(squareState')
             /\ \A i \in 0..LastIndex :
                   squareState[i] = "UNLOCK" => squareState'[i] = "UNLOCK"]_vars

ListeningFlagExact ==
    (scene = "Game" /\ hasSpeech)
        => /\ isSpeechListening <=> rec # "idle"
           /\ (popup = "square" /\ ~isSpeechListening) => ~StartThrows

\* C29: in Game4 an accepted attempt moves the word index of the current
\* command to the next of its 5 words, wrapping from 4 to 0, and leaves the
\* other index alone; a rejected attempt leaves both; no other step changes
\* an index, and both indices stay within 0..4.
WordIndicesAdvance ==
    [][scene = "Game4" =>
         /\ currentAttackWordIndex' \in 0..4
         /\ currentDefenseWordIndex' \in 0..4
         /\ IF ScoredStep /\ outcome' = "Accepted"
            THEN IF currentCommand = "sword"
                 THEN /\ currentAttackWordIndex' =
                             IF currentAttackWordIndex = 4 THEN 0
                             ELSE currentAttackWordIndex + 1
                      /\ currentDefenseWordIndex' = currentDefenseWordIndex
                 ELSE /\ currentDefenseWordIndex' =
                             IF currentDefenseWordIndex = 4 THEN 0
                             ELSE currentDefenseWordIndex + 1
                      /\ currentAttackWordIndex' = currentAttackWordIndex
            ELSE UNCHANGED <<currentAttackWordIndex,
                             currentDefenseWordIndex>>]_vars

\* The fifth attack word has been accepted and the attack index is back at
\* 0, while the defense index has moved once.
AttackIndexWrapped ==
    /\ scene = "Game4" /\ lastEvent = "result" /\ outcome = "Accepted"
    /\ currentCommand = "sword"
    /\ currentAttackWordIndex = 0 /\ currentDefenseWordIndex = 1
    /\ presented = attackWords[5]

\* C30: in every reachable state of the fight playerHealth and
\* monsterHealth lie within 0..100 and currentEnergy within 0..maxEnergy.
FightFieldsInRange ==
    scene = "Combat" =>
        /\ playerHealth \in 0..100
        /\ monsterHealth \in 0..100
        /\ currentEnergy \in 0..maxEnergy

\* After a defeat with full energy and a monster attack that took more
\* health than the player had left: the monster is at 0 before the next one
\* spawns, the player is at 0, and the energy is at its maximum.
AllThreeAtTheirLimits ==
    /\ scene = "Combat"
    /\ playerHealth = 0 /\ monsterHealth = 0 /\ currentEnergy = maxEnergy
    /\ defeats >= 1

\* C27: between one spawnNewMonster and the next defeatMonster runs at most
\* once, so the reward of a defeat is granted once for each monster.
DefeatedOncePerMonster == scene = "Combat" => defeats <= 1

\* C28: whenever a monster attack has taken playerHealth to 0, gameOver is
\* invoked once the delayed calls that are pending have run, with no
\* further attempt by the player.
PlayerDeathEndsGame == (scene = "Combat" /\ unanswered) ~> ~unanswered
============================================================================
